---- MODULE Spec2Model ----
(***************************************************************************)
(* A model of src/Game.C++: the resource cache, the sprite animation,      *)
(* the kinematics component, GameObject's animation management, the Player *)
(* and the loop driver.                                                    *)
(*                                                                         *)
(* Time and lengths are floats in the source.  They are modelled as        *)
(* integers: one unit of time is 0.1 s (so the Player's frame times 0.2f   *)
(* and 0.1f are 2 and 1), and positions, velocities and accelerations are  *)
(* integers in the units that follow from it.                              *)
(*                                                                         *)
(* A std::unique_ptr<Animation> is modelled by its value: either Null or   *)
(* the record of the Animation it owns.  Ownership is exclusive, so moving *)
(* a pointer moves the record and leaves Null behind; the field id of the  *)
(* record is the identity (address) of the Animation object.               *)
(***************************************************************************)
EXTENDS Integers, Sequences, FiniteSets, TLC

(***************************************************************************)
(* Bounds of the model.                                                    *)
(***************************************************************************)
MaxFrames == 3
MaxFrameTime == 3
MaxDelta == 4
MaxElapsed == 6
MaxRect == 2

MaxAnimations == 3
MaxPhysicsTicks == 2
MaxAssets == 2
MaxCalls == 5
MaxObjects == 2
MaxTick == 2
MaxIterations == 1
MaxSetActive == 1
MaxPlayerTicks == 3
MaxEvents == 1

Rects == 1..MaxRect
NoRect == 0
Deltas == 0..MaxDelta

VARIABLES
    anim,          \* the Animation of the stand-alone animation specification
    spriteRect,    \* the texture rect of the sprite that Animation is bound to
    sumDelta,      \* history: sum of the deltaTime arguments since the run started
    startFrame,    \* history: currentFrame when the run started
    fromZero,      \* history: the run started with currentTime = 0
    exact,         \* history: no update of the run took currentTime past frameTime
    object,        \* the GameObject of the stand-alone GameObject specification
    registered,    \* history: name -> id of the Animation last given to addAnimation (0: none)
    nextId,        \* identity of the next Animation to be constructed
    lastOp,        \* history: the last operation applied to object
    played,        \* history: ids of the Animations that have been the current animation
    physics,       \* the Physics of the stand-alone kinematics specification
    position,      \* the position that Physics is applied to
    physicsDelta,  \* history: the deltaTime of the last Physics::update
    physicsTicks,  \* history: number of Physics::update calls
    textures,      \* ResourceManager::textures
    returned,      \* the entry the last getTexture returned a reference to
    stored,        \* history: name -> asset of the last successful load (0: none)
    lastCall,      \* history: the last ResourceManager call
    calls,         \* history: number of ResourceManager calls
    pc,            \* where Game::run is: "loop", "handleEvents", "update", "render", "returned"
    windowOpen,    \* window.isOpen()
    events,        \* the window's queue of pending events
    gameObjects,   \* Game::gameObjects
    camera,        \* centre of Game::camera
    iterations,    \* history: number of iterations of run begun
    log,           \* history: the calls made in the current iteration of run
    setActiveCalls, \* history: number of setActive calls
    player,        \* the Player of the stand-alone Player specification
    keys,          \* the keyboard as the last Player::update found it
    lastDelta,     \* the deltaTime of the last Player::update
    playerTicks    \* history: number of Player::update calls

animVars == <<anim, spriteRect, sumDelta, startFrame, fromZero, exact>>

objectVars == <<object, registered, nextId, lastOp, played>>

physicsVars == <<physics, position, physicsDelta, physicsTicks>>

resourceVars == <<textures, returned, stored, lastCall, calls>>

vars == <<anim, spriteRect, sumDelta, startFrame, fromZero, exact,
          object, registered, nextId, lastOp, played,
          physics, position, physicsDelta, physicsTicks,
          textures, returned, stored, lastCall, calls,
          pc, windowOpen, events, gameObjects, camera, iterations, log, setActiveCalls,
          player, keys, lastDelta, playerTicks>>

gameVars == <<pc, windowOpen, events, gameObjects, camera, iterations, log, setActiveCalls>>

playerVars == <<player, keys, lastDelta, playerTicks>>

(***************************************************************************)
(* ResourceManager                                                         *)
(***************************************************************************)
\* std::map::operator[] followed by an assignment.
MapPut(m, k, v) == [x \in (DOMAIN m) \cup {k} |-> IF x = k THEN v ELSE m[x]]

\* A texture is its size: 0 is the empty, default-constructed sf::Texture.
DefaultTexture == 0
TextureNames == {"player", "enemy"}

\* The files: file 0 cannot be read or decoded, file k > 0 decodes to the
\* texture k.
Files == 0..MaxAssets

\* sf::Texture::loadFromFile on a default-constructed texture.
loadFromFile(filename) ==
    IF filename = 0 THEN [ok |-> FALSE, texture |-> DefaultTexture]
    ELSE [ok |-> TRUE, texture |-> filename]

(***************************************************************************)
(* Animation                                                               *)
(***************************************************************************)
NewAnimation(ident, ft) ==
    [id |-> ident, frames |-> <<>>, frameTime |-> ft, currentTime |-> 0,
     currentFrame |-> 0, isLooping |-> TRUE]

AnimationAddFrame(a, frame) == [a EXCEPT !.frames = Append(@, frame)]

\* Animation::update with > for >= in the comparison with frameTime.
AnimationUpdateStrict(a, rect, deltaTime) ==
    IF a.frames = <<>>
    THEN [animation |-> a, rect |-> rect]
    ELSE LET t == a.currentTime + deltaTime
         IN IF t > a.frameTime
            THEN LET f == (a.currentFrame + 1) % Len(a.frames)
                 IN [animation |-> [a EXCEPT !.currentTime = 0, !.currentFrame = f],
                     rect |-> a.frames[f + 1]]
            ELSE [animation |-> [a EXCEPT !.currentTime = t], rect |-> rect]

\* Animation::update wrapping one frame too late.
AnimationUpdateLateWrap(a, rect, deltaTime) ==
    IF a.frames = <<>>
    THEN [animation |-> a, rect |-> rect]
    ELSE LET t == a.currentTime + deltaTime
         IN IF t >= a.frameTime
            THEN LET f == (a.currentFrame + 1) % (Len(a.frames) + 1)
                 IN [animation |-> [a EXCEPT !.currentTime = 0, !.currentFrame = f],
                     rect |-> IF f < Len(a.frames) THEN a.frames[f + 1] ELSE rect]
            ELSE [animation |-> [a EXCEPT !.currentTime = t], rect |-> rect]

\* Animation::update advancing one frame for every frame time elapsed and
\* keeping the rest of the accumulated time.
AnimationUpdateCatchUp(a, rect, deltaTime) ==
    IF a.frames = <<>>
    THEN [animation |-> a, rect |-> rect]
    ELSE LET t == a.currentTime + deltaTime
         IN IF t >= a.frameTime
            THEN LET f == (a.currentFrame + (t \div a.frameTime)) % Len(a.frames)
                 IN [animation |-> [a EXCEPT !.currentTime = t % a.frameTime,
                                             !.currentFrame = f],
                     rect |-> a.frames[f + 1]]
            ELSE [animation |-> [a EXCEPT !.currentTime = t], rect |-> rect]

\* Animation::update.  frames is 1-indexed here, frames[currentFrame] of the
\* source is a.frames[currentFrame + 1].  The result is the animation and
\* the texture rect of the sprite it is bound to.
AnimationUpdate(a, rect, deltaTime) ==
    IF a.frames = <<>>
    THEN [animation |-> a, rect |-> rect]
    ELSE LET t == a.currentTime + deltaTime
         IN IF t >= a.frameTime
            THEN LET f == (a.currentFrame + 1) % Len(a.frames)
                 IN [animation |-> [a EXCEPT !.currentTime = 0, !.currentFrame = f],
                     rect |-> a.frames[f + 1]]
            ELSE [animation |-> [a EXCEPT !.currentTime = t], rect |-> rect]

\* loadTexture storing the texture whatever loadFromFile returned.
loadTextureUnchecked(tex, name, filename) ==
    MapPut(tex, name, loadFromFile(filename).texture)

\* ResourceManager::loadTexture
loadTexture(tex, name, filename) ==
    LET r == loadFromFile(filename)
    IN IF r.ok THEN MapPut(tex, name, r.texture) ELSE tex

\* getTexture looking the name up without inserting it.
getTextureFind(tex, name) ==
    [textures |-> tex,
     entry |-> [name |-> name,
                texture |-> IF name \in DOMAIN tex THEN tex[name] ELSE DefaultTexture]]

\* ResourceManager::getTexture: textures[name] inserts a default-constructed
\* texture under a name that has none; the result refers to the entry.
getTexture(tex, name) ==
    LET t == IF name \in DOMAIN tex THEN tex ELSE MapPut(tex, name, DefaultTexture)
    IN [textures |-> t, entry |-> [name |-> name, texture |-> t[name]]]

(***************************************************************************)
(* Physics                                                                 *)
(***************************************************************************)
Gravity == 98   \* 980.f px/s^2, in units of 0.1 px and 0.1 s

VPlus(u, v) == <<u[1] + v[1], u[2] + v[2]>>
VTimes(u, k) == <<u[1] * k, u[2] * k>>

\* A Physics constructed with isGrounded(true).
NewPhysicsGrounded ==
    [velocity |-> <<0, 0>>, acceleration |-> <<0, 0>>, gravity |-> Gravity,
     isGrounded |-> TRUE]

\* Physics::Physics
NewPhysics ==
    [velocity |-> <<0, 0>>, acceleration |-> <<0, 0>>, gravity |-> Gravity,
     isGrounded |-> FALSE]

\* Physics::update moving the position by the velocity before the tick.
PhysicsUpdateStale(ph, pos, deltaTime) ==
    LET v1 == VPlus(ph.velocity, VTimes(ph.acceleration, deltaTime))
        v2 == IF ~ph.isGrounded THEN <<v1[1], v1[2] + ph.gravity * deltaTime>> ELSE v1
    IN [physics |-> [ph EXCEPT !.velocity = v2],
        position |-> VPlus(pos, VTimes(ph.velocity, deltaTime))]

\* Physics::update
PhysicsUpdate(ph, pos, deltaTime) ==
    LET v1 == VPlus(ph.velocity, VTimes(ph.acceleration, deltaTime))
        v2 == IF ~ph.isGrounded THEN <<v1[1], v1[2] + ph.gravity * deltaTime>> ELSE v1
    IN [physics |-> [ph EXCEPT !.velocity = v2],
        position |-> VPlus(pos, VTimes(v2, deltaTime))]

(***************************************************************************)
(* GameObject                                                              *)
(***************************************************************************)
Names == {"idle", "run", "jump"}

\* std::unique_ptr<Animation>: Null, or the one Animation it owns.
Null == <<>>
Owning(a) == <<a>>

NewSprite == [rect |-> NoRect, position |-> <<0, 0>>, scaleX |-> 1]

NewGameObject ==
    [sprite |-> NewSprite, position |-> <<0, 0>>, active |-> TRUE,
     currentAnimation |-> Null, animations |-> <<>>]

setActive(o, state) == [o EXCEPT !.active = state]

setPosition(o, pos) == [o EXCEPT !.position = pos, !.sprite.position = pos]

\* animations[name] = std::move(animation): an Animation already held under
\* name is destroyed.
addAnimation(o, name, animation) ==
    [o EXCEPT !.animations = MapPut(@, name, animation)]

\* playAnimation written with animations[name] in place of find(name).
playAnimationIndexed(o, name) ==
    [o EXCEPT !.currentAnimation = IF name \in DOMAIN o.animations
                                   THEN o.animations[name] ELSE Null,
              !.animations = MapPut(@, name, Null)]

\* playAnimation that leaves the Animation in the map entry as well.
playAnimationCopy(o, name) ==
    IF name \in DOMAIN o.animations
    THEN [o EXCEPT !.currentAnimation = o.animations[name]]
    ELSE o

\* currentAnimation = std::move(it->second): the entry stays in the map and
\* holds nullptr afterwards, the Animation that was current is destroyed.
playAnimation(o, name) ==
    IF name \in DOMAIN o.animations
    THEN [o EXCEPT !.currentAnimation = o.animations[name],
                   !.animations = MapPut(@, name, Null)]
    ELSE o

\* if (currentAnimation) currentAnimation->update(deltaTime);
updateCurrentAnimation(o, deltaTime) ==
    IF o.currentAnimation # Null
    THEN LET r == AnimationUpdate(o.currentAnimation[1], o.sprite.rect, deltaTime)
         IN [o EXCEPT !.currentAnimation = Owning(r.animation), !.sprite.rect = r.rect]
    ELSE o

\* An Animation as a subclass constructor builds it: constructed, then given
\* its frames.
RECURSIVE WithFrames(_, _)
WithFrames(a, frames) ==
    IF frames = <<>> THEN a
    ELSE WithFrames(AnimationAddFrame(a, Head(frames)), Tail(frames))

FrameLists == {<<>>, <<1>>, <<1, 2>>}

(***************************************************************************)
(* Player                                                                  *)
(***************************************************************************)
Speed == 200          \* 200.f px/s, in units of 0.1 px and 0.1 s
JumpImpulse == -400   \* -400.f px/s
IdleFrameTime == 2    \* 0.2f s
RunFrameTime == 1     \* 0.1f s

\* The keyboard: which of Left, Right and Space are pressed.
KeyStates == [left : BOOLEAN, right : BOOLEAN, space : BOOLEAN]
NoKeys == [left |-> FALSE, right |-> FALSE, space |-> FALSE]

\* The frames a Player's animations are given where the source says
\* "Add frames to animation": none, as the source stands, or two.
PlayerFrameLists == {<<>>, <<1, 2>>}

\* sf::Sprite::setTexture on a sprite without a texture: the texture rect
\* becomes the whole texture.
setTexture(sprite, texture) == [sprite EXCEPT !.rect = texture]

\* sf::Sprite::scale(-1.f, 1.f)
mirror(sprite) == [sprite EXCEPT !.scaleX = -1 * @]

\* Player::Player.  ident is the identity of its first Animation.
NewPlayer(texture, frames, ident) ==
    LET p0 == [sprite |-> setTexture(NewSprite, texture), position |-> <<0, 0>>,
               active |-> TRUE, currentAnimation |-> Null, animations |-> <<>>,
               speed |-> Speed, physics |-> NewPhysics, facingRight |-> TRUE]
        p1 == addAnimation(p0, "idle",
                  Owning(WithFrames(NewAnimation(ident, IdleFrameTime), frames)))
        p2 == addAnimation(p1, "run",
                  Owning(WithFrames(NewAnimation(ident + 1, RunFrameTime), frames)))
    IN playAnimation(p2, "idle")

\* handleInput mirroring the sprite on every tick that selects left.
handleInputMirrorOnLeft(p, k) ==
    LET isMoving == k.right \/ k.left
        p1 == IF k.right
              THEN [p EXCEPT !.physics.velocity[1] = p.speed,
                             !.sprite = IF ~p.facingRight THEN mirror(@) ELSE @,
                             !.facingRight = TRUE]
              ELSE IF k.left
              THEN [p EXCEPT !.physics.velocity[1] = -p.speed,
                             !.sprite = mirror(@),
                             !.facingRight = FALSE]
              ELSE [p EXCEPT !.physics.velocity[1] = 0]
        p2 == IF k.space /\ p1.physics.isGrounded
              THEN [p1 EXCEPT !.physics.velocity[2] = JumpImpulse,
                              !.physics.isGrounded = FALSE]
              ELSE p1
    IN playAnimation(p2, IF isMoving THEN "run" ELSE "idle")

\* handleInput adding the speed to the horizontal velocity it finds.
handleInputAccelerate(p, k) ==
    LET isMoving == k.right \/ k.left
        p1 == IF k.right
              THEN [p EXCEPT !.physics.velocity[1] = @ + p.speed,
                             !.sprite = IF ~p.facingRight THEN mirror(@) ELSE @,
                             !.facingRight = TRUE]
              ELSE IF k.left
              THEN [p EXCEPT !.physics.velocity[1] = @ - p.speed,
                             !.sprite = IF p.facingRight THEN mirror(@) ELSE @,
                             !.facingRight = FALSE]
              ELSE [p EXCEPT !.physics.velocity[1] = 0]
        p2 == IF k.space /\ p1.physics.isGrounded
              THEN [p1 EXCEPT !.physics.velocity[2] = JumpImpulse,
                              !.physics.isGrounded = FALSE]
              ELSE p1
    IN playAnimation(p2, IF isMoving THEN "run" ELSE "idle")

\* handleInput applying the jump impulse whenever Space is pressed.
handleInputJumpUngrounded(p, k) ==
    LET isMoving == k.right \/ k.left
        p1 == IF k.right
              THEN [p EXCEPT !.physics.velocity[1] = p.speed,
                             !.sprite = IF ~p.facingRight THEN mirror(@) ELSE @,
                             !.facingRight = TRUE]
              ELSE IF k.left
              THEN [p EXCEPT !.physics.velocity[1] = -p.speed,
                             !.sprite = IF p.facingRight THEN mirror(@) ELSE @,
                             !.facingRight = FALSE]
              ELSE [p EXCEPT !.physics.velocity[1] = 0]
        p2 == IF k.space
              THEN [p1 EXCEPT !.physics.velocity[2] = JumpImpulse,
                              !.physics.isGrounded = FALSE]
              ELSE p1
    IN playAnimation(p2, IF isMoving THEN "run" ELSE "idle")

\* Player::handleInput
handleInput(p, k) ==
    LET isMoving == k.right \/ k.left
        p1 == IF k.right
              THEN [p EXCEPT !.physics.velocity[1] = p.speed,
                             !.sprite = IF ~p.facingRight THEN mirror(@) ELSE @,
                             !.facingRight = TRUE]
              ELSE IF k.left
              THEN [p EXCEPT !.physics.velocity[1] = -p.speed,
                             !.sprite = IF p.facingRight THEN mirror(@) ELSE @,
                             !.facingRight = FALSE]
              ELSE [p EXCEPT !.physics.velocity[1] = 0]
        p2 == IF k.space /\ p1.physics.isGrounded
              THEN [p1 EXCEPT !.physics.velocity[2] = JumpImpulse,
                              !.physics.isGrounded = FALSE]
              ELSE p1
    IN playAnimation(p2, IF isMoving THEN "run" ELSE "idle")

\* Player::update
playerUpdate(p, k, dt) ==
    LET p1 == handleInput(p, k)
        r == PhysicsUpdate(p1.physics, p1.position, dt)
        p2 == [p1 EXCEPT !.physics = r.physics, !.position = r.position,
                         !.sprite.position = r.position]
    IN updateCurrentAnimation(p2, dt)

\* GameObject::getBounds().getPosition(): the left top corner of the sprite's
\* global bounds.  A rect is as wide as its number says; a sprite mirrored
\* about its origin extends to the left of its position.
getBoundsPosition(o) ==
    IF o.sprite.scaleX < 0
    THEN <<o.sprite.position[1] - o.sprite.rect, o.sprite.position[2]>>
    ELSE o.sprite.position

\* The values the variables of a component keep in the specifications of
\* the other components.
AnimationUnused ==
    /\ anim = NewAnimation(1, 1)
    /\ spriteRect = NoRect
    /\ sumDelta = 0
    /\ startFrame = 0
    /\ fromZero = TRUE
    /\ exact = TRUE

PhysicsUnused ==
    /\ physics = NewPhysics
    /\ position = <<0, 0>>
    /\ physicsDelta = 0
    /\ physicsTicks = 0

ResourcesUnused ==
    /\ textures = <<>>
    /\ returned = [name |-> "", texture |-> DefaultTexture]
    /\ stored = [n \in TextureNames |-> 0]
    /\ lastCall = [op |-> "new", name |-> "", filename |-> 0]
    /\ calls = 0

GameUnused ==
    /\ pc = "loop"
    /\ windowOpen = TRUE
    /\ events = <<>>
    /\ gameObjects = <<>>
    /\ camera = <<0, 0>>
    /\ iterations = 0
    /\ log = <<>>
    /\ setActiveCalls = 0

PlayerUnused ==
    /\ player = NewPlayer(DefaultTexture, <<>>, 1)
    /\ keys = NoKeys
    /\ lastDelta = 0
    /\ playerTicks = 0

ObjectUnused ==
    /\ object = NewGameObject
    /\ registered = [n \in Names |-> 0]
    /\ nextId = 1
    /\ lastOp = [op |-> "new", name |-> ""]
    /\ played = {}

InitAnimation ==
    /\ \E ft \in 1..MaxFrameTime : anim = NewAnimation(1, ft)
    /\ spriteRect = NoRect
    /\ sumDelta = 0
    /\ startFrame = 0
    /\ fromZero = TRUE
    /\ exact = TRUE
    /\ ObjectUnused
    /\ PhysicsUnused
    /\ ResourcesUnused
    /\ GameUnused
    /\ PlayerUnused

\* addFrame(rect).  A new run of updates is measured from here.
AddFrame ==
    /\ Len(anim.frames) < MaxFrames
    /\ \E frame \in Rects : anim' = AnimationAddFrame(anim, frame)
    /\ sumDelta' = 0
    /\ startFrame' = anim.currentFrame
    /\ fromZero' = (anim.currentTime = 0)
    /\ exact' = TRUE
    /\ UNCHANGED spriteRect
    /\ UNCHANGED <<objectVars, physicsVars, resourceVars, gameVars, playerVars>>

\* update(deltaTime)
Update ==
    \E deltaTime \in Deltas :
        /\ sumDelta + deltaTime <= MaxElapsed
        /\ LET r == AnimationUpdate(anim, spriteRect, deltaTime)
           IN /\ anim' = r.animation
              /\ spriteRect' = r.rect
        /\ sumDelta' = sumDelta + deltaTime
        /\ exact' = (exact /\ anim.currentTime + deltaTime <= anim.frameTime)
        /\ UNCHANGED <<startFrame, fromZero>>
        /\ UNCHANGED <<objectVars, physicsVars, resourceVars, gameVars, playerVars>>

NextAnimation == AddFrame \/ Update

SpecAnimation == InitAnimation /\ [][NextAnimation]_vars

(***************************************************************************)
(* One GameObject under the calls a subclass makes.                        *)
(***************************************************************************)
InitGameObject ==
    /\ object = NewGameObject
    /\ registered = [n \in Names |-> 0]
    /\ nextId = 1
    /\ lastOp = [op |-> "new", name |-> ""]
    /\ played = {}
    /\ AnimationUnused
    /\ PhysicsUnused
    /\ ResourcesUnused
    /\ GameUnused
    /\ PlayerUnused

\* addAnimation(name, std::make_unique<Animation>(sprite, frameTime)), the
\* frames added before.
AddAnimation ==
    /\ nextId <= MaxAnimations
    /\ \E name \in Names, ft \in 1..2, frames \in FrameLists :
          /\ object' = addAnimation(object, name,
                                    Owning(WithFrames(NewAnimation(nextId, ft), frames)))
          /\ registered' = [registered EXCEPT ![name] = nextId]
          /\ lastOp' = [op |-> "addAnimation", name |-> name]
    /\ nextId' = nextId + 1
    /\ UNCHANGED played
    /\ UNCHANGED <<animVars, physicsVars, resourceVars, gameVars, playerVars>>

\* playAnimation(name)
PlayAnimation ==
    /\ \E name \in Names :
          /\ object' = playAnimation(object, name)
          /\ lastOp' = [op |-> "playAnimation", name |-> name]
    /\ played' = IF object'.currentAnimation # Null
                 THEN played \cup {object'.currentAnimation[1].id} ELSE played
    /\ UNCHANGED <<registered, nextId>>
    /\ UNCHANGED <<animVars, physicsVars, resourceVars, gameVars, playerVars>>

\* The current animation advanced as a subclass's update does.
AdvanceAnimation ==
    /\ \E deltaTime \in 0..2 : object' = updateCurrentAnimation(object, deltaTime)
    /\ lastOp' = [op |-> "update", name |-> ""]
    /\ UNCHANGED <<registered, nextId, played>>
    /\ UNCHANGED <<animVars, physicsVars, resourceVars, gameVars, playerVars>>

NextGameObject == AddAnimation \/ PlayAnimation \/ AdvanceAnimation

SpecGameObject == InitGameObject /\ [][NextGameObject]_vars

(***************************************************************************)
(* Physics::update on its own, from any state of the component.            *)
(***************************************************************************)
Components == -1..1

InitPhysics ==
    /\ \E v \in Components \X Components, a \in Components \X Components,
          g \in {0, 3, Gravity}, grounded \in BOOLEAN :
          physics = [velocity |-> v, acceleration |-> a, gravity |-> g,
                     isGrounded |-> grounded]
    /\ \E p \in {<<0, 0>>, <<5, -7>>} : position = p
    /\ physicsDelta = 0
    /\ physicsTicks = 0
    /\ AnimationUnused
    /\ ObjectUnused
    /\ ResourcesUnused
    /\ GameUnused
    /\ PlayerUnused

\* update(position, deltaTime)
PhysicsTick ==
    /\ physicsTicks < MaxPhysicsTicks
    /\ \E deltaTime \in 0..2 :
          LET r == PhysicsUpdate(physics, position, deltaTime)
          IN /\ physics' = r.physics
             /\ position' = r.position
             /\ physicsDelta' = deltaTime
    /\ physicsTicks' = physicsTicks + 1
    /\ UNCHANGED <<animVars, objectVars, resourceVars, gameVars, playerVars>>

NextPhysics == PhysicsTick

SpecPhysics == InitPhysics /\ [][NextPhysics]_vars

(***************************************************************************)
(* The ResourceManager under loadTexture and getTexture calls.             *)
(***************************************************************************)
InitResources ==
    /\ ResourcesUnused
    /\ AnimationUnused
    /\ ObjectUnused
    /\ PhysicsUnused
    /\ GameUnused
    /\ PlayerUnused

\* loadTexture(name, filename)
LoadTexture ==
    /\ calls < MaxCalls
    /\ \E name \in TextureNames, filename \in Files :
          /\ textures' = loadTexture(textures, name, filename)
          /\ stored' = IF loadFromFile(filename).ok
                        THEN [stored EXCEPT ![name] = loadFromFile(filename).texture]
                        ELSE stored
          /\ lastCall' = [op |-> "loadTexture", name |-> name, filename |-> filename]
    /\ calls' = calls + 1
    /\ UNCHANGED returned
    /\ UNCHANGED <<animVars, objectVars, physicsVars, gameVars, playerVars>>

\* getTexture(name)
GetTexture ==
    /\ calls < MaxCalls
    /\ \E name \in TextureNames :
          LET r == getTexture(textures, name)
          IN /\ textures' = r.textures
             /\ returned' = r.entry
             /\ lastCall' = [op |-> "getTexture", name |-> name, filename |-> 0]
    /\ calls' = calls + 1
    /\ UNCHANGED stored
    /\ UNCHANGED <<animVars, objectVars, physicsVars, gameVars, playerVars>>

NextResources == LoadTexture \/ GetTexture

SpecResources == InitResources /\ [][NextResources]_vars

(***************************************************************************)
(* One Player under update ticks.                                          *)
(***************************************************************************)
InitPlayer ==
    /\ \E filename \in {0, 1}, frames \in PlayerFrameLists :
          player = NewPlayer(loadFromFile(filename).texture, frames, 1)
    /\ keys = NoKeys
    /\ lastDelta = 0
    /\ playerTicks = 0
    /\ AnimationUnused
    /\ ObjectUnused
    /\ PhysicsUnused
    /\ ResourcesUnused
    /\ GameUnused

\* update(deltaTime), the keyboard in any state
PlayerTick ==
    /\ playerTicks < MaxPlayerTicks
    /\ \E k \in KeyStates, dt \in 0..MaxTick :
          /\ player' = playerUpdate(player, k, dt)
          /\ keys' = k
          /\ lastDelta' = dt
    /\ playerTicks' = playerTicks + 1
    /\ UNCHANGED <<animVars, objectVars, physicsVars, resourceVars, gameVars>>

NextPlayer == PlayerTick

SpecPlayer == InitPlayer /\ [][NextPlayer]_vars

(***************************************************************************)
(* Player::update as a function of the Player it is applied to: the ticks  *)
(* of SpecPlayer, from a Player whose physics.isGrounded holds either      *)
(* value.  The program as it stands never sets the flag (checkCollisions   *)
(* is empty); this is the Player as a collision step that lands it would   *)
(* leave it.                                                               *)
(***************************************************************************)
InitPlayerUpdate ==
    /\ \E filename \in {0, 1}, frames \in PlayerFrameLists, grounded \in BOOLEAN :
          player = [NewPlayer(loadFromFile(filename).texture, frames, 1)
                        EXCEPT !.physics.isGrounded = grounded]
    /\ keys = NoKeys
    /\ lastDelta = 0
    /\ playerTicks = 0
    /\ AnimationUnused
    /\ ObjectUnused
    /\ PhysicsUnused
    /\ ResourcesUnused
    /\ GameUnused

SpecPlayerUpdate == InitPlayerUpdate /\ [][NextPlayer]_vars

(***************************************************************************)
(* Game: construction, run and its passes.                                 *)
(***************************************************************************)
CameraCentre == <<4000, 3000>>   \* centre of sf::FloatRect(0, 0, 800, 600)

Entry(call, i) == [call |-> call, object |-> i]

\* The update pass without the isActive test.
RECURSIVE updateObjectsAll(_, _, _, _)
updateObjectsAll(objs, i, k, dt) ==
    IF i > Len(objs) THEN [objects |-> objs, calls |-> <<>>]
    ELSE LET rest == updateObjectsAll([objs EXCEPT ![i] = playerUpdate(objs[i], k, dt)],
                                      i + 1, k, dt)
         IN [rest EXCEPT !.calls = <<Entry("update", i)>> \o @]

\* The update pass of Game::update over the objects from index i on, in
\* collection order; the result is the objects and the calls made.
RECURSIVE updateObjects(_, _, _, _)
updateObjects(objs, i, k, dt) ==
    IF i > Len(objs) THEN [objects |-> objs, calls |-> <<>>]
    ELSE IF objs[i].active
    THEN LET rest == updateObjects([objs EXCEPT ![i] = playerUpdate(objs[i], k, dt)],
                                   i + 1, k, dt)
         IN [rest EXCEPT !.calls = <<Entry("update", i)>> \o @]
    ELSE updateObjects(objs, i + 1, k, dt)

\* GameObject::render: the calls it makes.
render(o, i) ==
    IF o.active THEN <<Entry("render", i), Entry("draw", i)>> ELSE <<Entry("render", i)>>

\* The loop of Game::render walking the objects from the last to index i.
RECURSIVE renderObjectsReversed(_, _)
renderObjectsReversed(objs, i) ==
    IF i > Len(objs) THEN <<>>
    ELSE IF objs[i].active
    THEN renderObjectsReversed(objs, i + 1) \o render(objs[i], i)
    ELSE renderObjectsReversed(objs, i + 1)

\* The loop of Game::render over the objects from index i on.
RECURSIVE renderObjects(_, _)
renderObjects(objs, i) ==
    IF i > Len(objs) THEN <<>>
    ELSE IF objs[i].active
    THEN render(objs[i], i) \o renderObjects(objs, i + 1)
    ELSE renderObjects(objs, i + 1)

\* Game::Game: loadResources, then initialize.  The "player" texture file
\* is unreadable (file 0) or decodes (file 1); the source constructs one Player, and "Add other
\* game objects" is taken as more of them.
InitGame ==
    /\ pc = "loop"
    /\ windowOpen = TRUE
    /\ events = <<>>
    /\ \E filename \in {0, 1}, n \in 1..MaxObjects, frames \in PlayerFrameLists :
          LET loaded == loadTexture(<<>>, "player", filename)
              got == getTexture(loaded, "player")
          IN /\ textures = got.textures
             /\ returned = got.entry
             /\ stored = [m \in TextureNames |->
                            IF m = "player" /\ loadFromFile(filename).ok
                            THEN loadFromFile(filename).texture ELSE 0]
             /\ gameObjects = [i \in 1..n |->
                                 NewPlayer(got.entry.texture, frames, 2 * i - 1)]
    /\ lastCall = [op |-> "getTexture", name |-> "player", filename |-> 0]
    /\ calls = 0
    /\ camera = CameraCentre
    /\ iterations = 0
    /\ log = <<>>
    /\ setActiveCalls = 0
    /\ AnimationUnused
    /\ ObjectUnused
    /\ PhysicsUnused
    /\ PlayerUnused

Others == <<animVars, objectVars, physicsVars, resourceVars, playerVars>>

\* while (window.isOpen())
RunLoop ==
    /\ pc = "loop"
    /\ windowOpen => iterations < MaxIterations
    /\ pc' = IF windowOpen THEN "handleEvents" ELSE "returned"
    /\ iterations' = IF windowOpen THEN iterations + 1 ELSE iterations
    /\ UNCHANGED <<windowOpen, events, gameObjects, camera, log, setActiveCalls>>
    /\ UNCHANGED Others

\* handleEvents without the window.close().
HandleEventsKeepOpen ==
    /\ pc = "handleEvents"
    /\ events' = <<>>
    /\ log' = <<Entry("handleEvents", 0)>>
    /\ pc' = "update"
    /\ UNCHANGED <<windowOpen, gameObjects, camera, iterations, setActiveCalls>>
    /\ UNCHANGED Others

\* handleEvents ending the iteration when it closes the window.
HandleEventsBreak ==
    /\ pc = "handleEvents"
    /\ windowOpen' = IF \E j \in 1..Len(events) : events[j] = "Closed"
                      THEN FALSE ELSE windowOpen
    /\ events' = <<>>
    /\ log' = <<Entry("handleEvents", 0)>>
    /\ pc' = IF windowOpen' THEN "update" ELSE "loop"
    /\ UNCHANGED <<gameObjects, camera, iterations, setActiveCalls>>
    /\ UNCHANGED Others

\* Game::handleEvents: the queue is drained; a Closed event closes the
\* window, and a closed window hands out no more events.
HandleEvents ==
    /\ pc = "handleEvents"
    /\ windowOpen' = IF \E j \in 1..Len(events) : events[j] = "Closed"
                      THEN FALSE ELSE windowOpen
    /\ events' = <<>>
    /\ log' = <<Entry("handleEvents", 0)>>
    /\ pc' = "update"
    /\ UNCHANGED <<gameObjects, camera, iterations, setActiveCalls>>
    /\ UNCHANGED Others

\* Game::update
GameUpdate ==
    /\ pc = "update"
    /\ \E dt \in 0..MaxTick, k \in KeyStates :
          /\ LET r == updateObjects(gameObjects, 1, k, dt)
             IN /\ gameObjects' = r.objects
                /\ camera' = IF r.objects # <<>>
                              THEN getBoundsPosition(r.objects[1]) ELSE camera
                /\ log' = log \o r.calls
                            \o (IF r.objects # <<>> THEN <<Entry("camera", 1)>> ELSE <<>>)
                            \o <<Entry("checkCollisions", 0)>>
    /\ pc' = "render"
    /\ UNCHANGED <<windowOpen, events, iterations, setActiveCalls>>
    /\ UNCHANGED Others

\* Game::render
GameRender ==
    /\ pc = "render"
    /\ log' = log \o <<Entry("clear", 0)>> \o renderObjects(gameObjects, 1)
                  \o <<Entry("display", 0)>>
    /\ pc' = "loop"
    /\ UNCHANGED <<windowOpen, events, gameObjects, camera, iterations,
                   setActiveCalls>>
    /\ UNCHANGED Others

\* The window system queues an event for the open window.  Within the
\* bound on the iterations, it does so while a drain of the queue is ahead.
PostEvent ==
    /\ windowOpen
    /\ pc # "returned"
    /\ pc = "handleEvents" \/ iterations < MaxIterations
    /\ Len(events) < MaxEvents
    /\ \E e \in {"Closed", "Resized"} : events' = Append(events, e)
    /\ UNCHANGED <<pc, windowOpen, gameObjects, camera, iterations, log, setActiveCalls>>
    /\ UNCHANGED Others

\* setActive(state) on one of the objects.
SetActive ==
    /\ pc # "returned"
    /\ setActiveCalls < MaxSetActive
    /\ \E i \in 1..Len(gameObjects), state \in BOOLEAN :
          gameObjects' = [gameObjects EXCEPT ![i] = setActive(@, state)]
    /\ setActiveCalls' = setActiveCalls + 1
    /\ UNCHANGED <<pc, windowOpen, events, camera, iterations, log>>
    /\ UNCHANGED Others

Next == RunLoop \/ HandleEvents \/ GameUpdate \/ GameRender \/ PostEvent \/ SetActive

Spec == InitGame /\ [][Next]_vars

\* The step of GameUpdate seen on pc alone.  GameUpdate is enabled whenever
\* pc = "update" (any deltaTime, any keyboard), and within Spec no other
\* action changes pc there, so weak fairness of this step is weak fairness
\* of GameUpdate.
UpdateStep == pc = "update" /\ pc' = "render"

\* run is a loop without suspension points: each of its steps is taken.
FairSpec ==
    /\ Spec
    /\ WF_vars(RunLoop)
    /\ WF_vars(HandleEvents)
    /\ WF_pc(UpdateStep)
    /\ WF_vars(GameRender)

(***************************************************************************)
(* Properties                                                              *)
(***************************************************************************)

\* C1: right after playAnimation(name) with a name registered by
\* addAnimation, the current animation is the Animation registered under
\* that name, also when the name was played before.
C1_PlayedIsCurrent ==
    (lastOp.op = "playAnimation" /\ registered[lastOp.name] # 0)
        => /\ object.currentAnimation # Null
           /\ object.currentAnimation[1].id = registered[lastOp.name]

\* C2: the current animation, if there is one, is held under some name in
\* the object's animation mapping.
C2_CurrentInMapping ==
    object.currentAnimation # Null
        => \E n \in DOMAIN object.animations :
              /\ object.animations[n] # Null
              /\ object.animations[n][1].id = object.currentAnimation[1].id

\* C3: playAnimation(name) with a name never registered leaves the object
\* as it was: the same current animation with its frame index and
\* accumulated time, the same mapping.
C3_MissIsNoOp ==
    [][(lastOp'.op = "playAnimation" /\ registered[lastOp'.name] = 0)
          => object' = object]_vars

C3_Witness ==
    /\ lastOp.op = "playAnimation"
    /\ registered[lastOp.name] = 0
    /\ object.currentAnimation # Null
    /\ object.currentAnimation[1].currentFrame = 1
    /\ object.currentAnimation[1].currentTime = 1
    /\ DOMAIN object.animations # {}

\* The run of updates measured by sumDelta: k frame times in all.
WholeFrames == sumDelta % anim.frameTime = 0
FramesElapsed == sumDelta \div anim.frameTime

\* C4 as stated: updates from accumulated time 0 whose deltaTime sum to k*T
\* take the frame index from i to (i + k) mod N however k*T is split; with
\* no frames the index never changes.
C4_AnySplit ==
    /\ (anim.frames # <<>> /\ fromZero /\ WholeFrames)
          => anim.currentFrame = (startFrame + FramesElapsed) % Len(anim.frames)
    /\ anim.frames = <<>> => anim.currentFrame = 0

\* C4 amended: the same, for the splits in which no update takes the
\* accumulated time past T (every advance happens at exactly T).
C4_ExactSplit ==
    /\ (anim.frames # <<>> /\ fromZero /\ exact /\ WholeFrames)
          => anim.currentFrame = (startFrame + FramesElapsed) % Len(anim.frames)
    /\ anim.frames = <<>> => anim.currentFrame = 0

C4_Witness ==
    /\ Len(anim.frames) = 2
    /\ fromZero /\ exact /\ WholeFrames
    /\ anim.frameTime = 2
    /\ FramesElapsed = 3
    /\ anim.currentFrame = 1

\* C5: with frames, the frame index is in [0, frame count), whatever the
\* interleaving of addFrame and update; without frames update changes
\* neither the index nor the accumulated time nor the sprite's rect.
C5_FrameInRange ==
    /\ [](anim.frames # <<>> => anim.currentFrame \in 0..(Len(anim.frames) - 1))
    /\ [][(anim.frames = <<>> /\ anim'.frames = <<>>)
             => (anim' = anim /\ spriteRect' = spriteRect)]_vars

C5_Witness ==
    /\ Len(anim.frames) = 3
    /\ anim.currentFrame = 2
    /\ spriteRect = anim.frames[3]
    /\ ~fromZero

\* C6: while an object's activity flag is false the driver invokes neither
\* update nor render on it, and its position, velocity, facing, current
\* animation, frame index and accumulated time stay as they are, for any
\* number of iterations (step by step).
C6_InactiveSkipped ==
    [][\A i \in 1..Len(gameObjects) :
          (~gameObjects[i].active /\ ~gameObjects'[i].active)
             => /\ gameObjects'[i] = gameObjects[i]
                /\ \A j \in 1..Len(log') :
                      (log'[j].object = i /\ log'[j].call \in {"update", "render", "draw"})
                         => (j <= Len(log) /\ log[j] = log'[j])]_vars

C6_Witness ==
    /\ pc = "loop"
    /\ iterations = MaxIterations
    /\ Len(gameObjects) = 2
    /\ ~gameObjects[1].active
    /\ gameObjects[1].position = <<0, 0>>
    /\ gameObjects[1].physics.velocity = <<0, 0>>
    /\ gameObjects[1].currentAnimation # Null
    /\ gameObjects[2].position[2] >= Gravity
    /\ \E j \in 1..Len(log) : log[j] = Entry("draw", 2)
    /\ \A j \in 1..Len(log) : log[j].object # 1 \/ log[j].call = "camera"

\* C7: one Physics::update(position, dt) gives velocity = v0 + a*dt + (0, g*dt)
\* when not grounded and v0 + a*dt when grounded, and in both cases
\* position = p0 + velocity_new*dt; acceleration, gravity and the grounded
\* flag are left as they were.
C7_Kinematics ==
    [][physicsTicks' = physicsTicks + 1 =>
         LET dt == physicsDelta'
             v0 == physics.velocity
             a == physics.acceleration
             g == physics.gravity
             vNew == physics'.velocity
         IN /\ ~physics.isGrounded =>
                  vNew = <<v0[1] + a[1] * dt, v0[2] + a[2] * dt + g * dt>>
            /\ physics.isGrounded =>
                  vNew = <<v0[1] + a[1] * dt, v0[2] + a[2] * dt>>
            /\ position' = <<position[1] + vNew[1] * dt, position[2] + vNew[2] * dt>>
            /\ physics'.acceleration = a
            /\ physics'.gravity = g
            /\ physics'.isGrounded = physics.isGrounded]_vars

C7_Witness ==
    /\ physicsTicks = 2
    /\ physicsDelta = 2
    /\ ~physics.isGrounded
    /\ physics.gravity = Gravity
    /\ physics.acceleration = <<1, -1>>
    /\ physics.velocity[2] > 2 * Gravity
    /\ position[1] # 0

CloseQueued == \E j \in 1..Len(events) : events[j] = "Closed"

\* C8: run returns only with the window closed, the window is closed only
\* by the drain of a Closed event and never opens again, and a Closed event
\* in the queue leads to the return of run.
C8_ClosedOnlyByRequest ==
    /\ [](pc = "returned" => ~windowOpen)
    /\ [][(windowOpen /\ ~windowOpen') => (pc = "handleEvents" /\ CloseQueued)]_vars
    /\ [][~windowOpen => ~windowOpen']_vars
    /\ (CloseQueued ~> pc = "returned")

C8_Witness ==
    /\ pc = "returned"
    /\ ~windowOpen
    /\ iterations = MaxIterations
    /\ events = <<>>

\* C9: a texture load whose file read fails leaves the cache as it was (no
\* entry created, an earlier asset under the name kept); a load that
\* succeeds stores the asset under the name, replacing an earlier one.
C9_LoadTexture ==
    [][lastCall'.op = "loadTexture" /\ calls' = calls + 1 =>
         LET name == lastCall'.name
             r == loadFromFile(lastCall'.filename)
         IN /\ ~r.ok => textures' = textures
            /\ r.ok => /\ DOMAIN textures' = DOMAIN textures \cup {name}
                        /\ textures'[name] = r.texture
                        /\ \A n \in DOMAIN textures \ {name} : textures'[n] = textures[n]]_vars

C9_Witness ==
    /\ lastCall.op = "loadTexture"
    /\ ~loadFromFile(lastCall.filename).ok
    /\ lastCall.name \in DOMAIN textures
    /\ textures[lastCall.name] = 2
    /\ stored[lastCall.name] = 2
    /\ DOMAIN textures # TextureNames

\* C10: getTexture(name) returns the asset of the last successful load under
\* name; for a name with no asset it returns a default empty asset and
\* inserts it into the cache under the name, so that the key set grows and
\* later lookups return that entry.
C10_GetTexture ==
    /\ [](lastCall.op = "getTexture" =>
            /\ returned.name = lastCall.name
            /\ returned.texture = stored[lastCall.name]
            /\ lastCall.name \in DOMAIN textures
            /\ textures[lastCall.name] = returned.texture)
    /\ [][(lastCall'.op = "getTexture" /\ calls' = calls + 1
              /\ lastCall'.name \notin DOMAIN textures)
             => /\ DOMAIN textures' = DOMAIN textures \cup {lastCall'.name}
                /\ textures'[lastCall'.name] = DefaultTexture
                /\ returned'.texture = DefaultTexture]_vars

C10_Witness ==
    /\ lastCall.op = "getTexture"
    /\ lastCall.name = "enemy"
    /\ returned = [name |-> "enemy", texture |-> DefaultTexture]
    /\ DOMAIN textures = {"player", "enemy"}
    /\ textures["player"] = 1
    /\ stored["enemy"] = 0

\* The Animation a Player's constructor registers under the name that the
\* keyboard state k selects: "run" is the second one, "idle" the first.
C11_Chosen(k) == IF k.left \/ k.right THEN 2 ELSE 1

\* C11: after every Player tick the animation chosen by the keys of the
\* tick ("run" with left or right pressed, otherwise "idle") is the current
\* animation; and after the first tick of a Player whose animations have two
\* frames, with no directional key and deltaTime equal to the idle frame
\* time, the idle animation is current at frame index 1.
C11_ChosenIsCurrent ==
    /\ playerTicks > 0
          => /\ player.currentAnimation # Null
             /\ player.currentAnimation[1].id = C11_Chosen(keys)
    /\ (/\ playerTicks = 1
        /\ ~keys.left /\ ~keys.right
        /\ lastDelta = IdleFrameTime
        /\ player.animations["run"] # Null
        /\ Len(player.animations["run"][1].frames) = 2)
          => /\ player.currentAnimation # Null
             /\ player.currentAnimation[1].id = 1
             /\ player.currentAnimation[1].currentFrame = 1

\* C12: an Animation that has been the current animation and is so no
\* longer never becomes current again: a playAnimation of the name it was
\* registered under, after the object switched away from it, does not make
\* it current, and without a new addAnimation every registered Animation is
\* current during at most one contiguous stretch (step by step: an
\* Animation played before is current after a step only if it was current
\* before the step).
C12_OneStretch ==
    /\ [][(/\ lastOp'.op = "playAnimation"
           /\ registered[lastOp'.name] \in played
           /\ \/ object.currentAnimation = Null
              \/ object.currentAnimation[1].id # registered[lastOp'.name])
             => \/ object'.currentAnimation = Null
                \/ object'.currentAnimation[1].id # registered[lastOp'.name]]_vars
    /\ [][(/\ object'.currentAnimation # Null
           /\ object'.currentAnimation[1].id \in played)
             => /\ object.currentAnimation # Null
                /\ object.currentAnimation[1].id = object'.currentAnimation[1].id]_vars

\* A was played, the object switched to B, and A was played again.
C12_Witness ==
    /\ lastOp.op = "playAnimation"
    /\ registered[lastOp.name] \in played
    /\ Cardinality(played) = 2
    /\ object.currentAnimation = Null
    /\ lastOp.name \in DOMAIN object.animations
    /\ object.animations[lastOp.name] = Null

\* The direction a keyboard state selects in handleInput.
C13_Selected(k) == IF k.right THEN "right" ELSE IF k.left THEN "left" ELSE "none"

\* C13: a Player tick mirrors the sprite exactly when the direction its keys
\* select differs from the facing before the tick; a tick without a
\* directional key and a tick that repeats the facing leave the scale as it
\* is.  So a tick that selects left after a tick that selected right mirrors
\* once and a further left tick does not, and in every reachable state the
\* sprite is mirrored exactly when facingRight is false.
C13_MirrorOnChange ==
    /\ [](/\ player.sprite.scaleX \in {-1, 1}
          /\ player.sprite.scaleX = -1 <=> ~player.facingRight)
    /\ [][playerTicks' = playerTicks + 1 =>
            LET differs == \/ C13_Selected(keys') = "right" /\ ~player.facingRight
                           \/ C13_Selected(keys') = "left" /\ player.facingRight
            IN /\ differs => player'.sprite.scaleX = -1 * player.sprite.scaleX
               /\ ~differs => player'.sprite.scaleX = player.sprite.scaleX]_vars
    /\ [][(playerTicks > 0 /\ playerTicks' = playerTicks + 1) =>
            /\ (C13_Selected(keys) = "right" /\ C13_Selected(keys') = "left")
                  => player'.sprite.scaleX = -1 * player.sprite.scaleX
            /\ (C13_Selected(keys) = "left" /\ C13_Selected(keys') = "left")
                  => player'.sprite.scaleX = player.sprite.scaleX]_vars

\* Right held for a tick, then left for two: mirrored, once.
C13_Witness ==
    /\ playerTicks = 3
    /\ C13_Selected(keys) = "left"
    /\ ~player.facingRight
    /\ player.sprite.scaleX = -1
    /\ player.physics.velocity[2] = 6 * Gravity
    /\ player.position[1] = -2 * Speed

\* C14: after every Player tick the horizontal velocity is the one the keys
\* of that tick give, whatever it was before: speed with right pressed
\* (also together with left), -speed with left alone, 0 with neither.
C14_HorizontalVelocity ==
    playerTicks > 0 =>
        player.physics.velocity[1] = IF keys.right THEN player.speed
                                     ELSE IF keys.left THEN -player.speed
                                     ELSE 0

\* Right held for three ticks, together with left on the last one.
C14_Witness ==
    /\ playerTicks = 3
    /\ keys.right /\ keys.left
    /\ player.physics.velocity[1] = Speed
    /\ player.position[1] = 6 * Speed

\* C15: a Player tick overwrites the vertical velocity with the jump impulse
\* exactly when Space is pressed and the grounded flag is true at the start
\* of the tick; the flag is then false before the kinematics step, so the
\* velocity after the tick is the impulse plus the gravity of that tick.  In
\* every other tick the vertical velocity is only advanced by the
\* kinematics step and the flag stays as it was; so with Space still held
\* in the next tick the flag is false and no second impulse is applied.
C15_Jump ==
    /\ [][playerTicks' = playerTicks + 1 =>
            LET jump == keys'.space /\ player.physics.isGrounded
                vy == player.physics.velocity[2]
                g == player.physics.gravity
            IN /\ jump => /\ player'.physics.velocity[2] = JumpImpulse + g * lastDelta'
                          /\ ~player'.physics.isGrounded
               /\ ~jump => /\ player'.physics.velocity[2] =
                                 IF player.physics.isGrounded THEN vy
                                 ELSE vy + g * lastDelta'
                           /\ player'.physics.isGrounded = player.physics.isGrounded]_vars
    /\ [](playerTicks > 0 /\ keys.space => ~player.physics.isGrounded)
    /\ [][(playerTicks > 0 /\ keys.space /\ keys'.space
             /\ playerTicks' = playerTicks + 1)
            => player'.physics.velocity[2] =
                  player.physics.velocity[2] + player.physics.gravity * lastDelta']_vars

\* A grounded Player, Space pressed in the first tick and still pressed in
\* the third, each tick of deltaTime 1: one impulse, gravity three times.
C15_Witness ==
    /\ playerTicks = 3
    /\ keys.space
    /\ ~player.physics.isGrounded
    /\ player.physics.velocity[2] = JumpImpulse + 3 * Gravity
    /\ player.position[2] = 3 * JumpImpulse + 6 * Gravity

\* C18: the Player's grounded flag is false in every reachable state; so no
\* tick applies the jump impulse, whatever the keys, every tick adds the
\* gravity of its deltaTime to the vertical velocity, and the vertical
\* velocity never decreases from one tick to the next.
C18_NeverGrounded ==
    /\ [](~player.physics.isGrounded)
    /\ [][playerTicks' = playerTicks + 1 =>
            /\ player'.physics.velocity[2] =
                  player.physics.velocity[2] + Gravity * lastDelta'
            /\ player'.physics.velocity[2] >= player.physics.velocity[2]]_vars

\* Three ticks of deltaTime 2, Space pressed in the last one.
C18_Witness ==
    /\ playerTicks = 3
    /\ keys.space
    /\ player.physics.velocity[2] = 6 * Gravity
    /\ player.position[2] = 24 * Gravity

\* C19: one update(deltaTime) advances the frame index by one step (mod the
\* frame count) when the accumulated time plus deltaTime reaches the frame
\* time, and then leaves the accumulated time at 0, and by no step
\* otherwise, however many frame times deltaTime spans; after every update
\* the accumulated time is in [0, frameTime).
C19_OneStepPerUpdate ==
    /\ [](anim.currentTime \in 0..(anim.frameTime - 1))
    /\ [][(anim'.frames = anim.frames /\ anim.frames # <<>>) =>
            LET deltaTime == sumDelta' - sumDelta
            IN /\ anim.currentTime + deltaTime >= anim.frameTime
                    => /\ anim'.currentFrame = (anim.currentFrame + 1) % Len(anim.frames)
                       /\ anim'.currentTime = 0
               /\ anim.currentTime + deltaTime < anim.frameTime
                    => /\ anim'.currentFrame = anim.currentFrame
                       /\ anim'.currentTime = anim.currentTime + deltaTime]_vars

\* One update of four frame times: one frame further, nothing accumulated.
C19_Witness ==
    /\ anim.frameTime = 1
    /\ Len(anim.frames) = 3
    /\ sumDelta = 4
    /\ anim.currentFrame = (startFrame + 1) % 3
    /\ anim.currentTime = 0

\* The positions in the log s of the calls named call, and of that call on
\* object i.
C16_Pos(s, call) == {j \in 1..Len(s) : s[j].call = call}
C16_PosOf(s, call, i) == {j \in 1..Len(s) : s[j] = Entry(call, i)}

\* Every call named c1 in s comes before every call named c2.
C16_Before(s, c1, c2) == \A a \in C16_Pos(s, c1), b \in C16_Pos(s, c2) : a < b

\* The calls named call in s visit the objects in collection order, each
\* at most once.
C16_InOrder(s, call) ==
    \A a, b \in C16_Pos(s, call) : a < b => s[a].object < s[b].object

\* C16: the calls of an iteration of run are made in the order drain of the
\* events, update pass, camera recentre, collision step, render pass (clear,
\* the objects, display), each step once in a finished iteration; the update
\* pass updates every object that is active exactly once and the others not
\* at all, the render pass does the same with render, both in collection
\* order, and every render comes after every update of the iteration.
C16_IterationOrder ==
    /\ [](/\ C16_Before(log, "handleEvents", "update")
          /\ C16_Before(log, "update", "camera")
          /\ C16_Before(log, "camera", "checkCollisions")
          /\ C16_Before(log, "checkCollisions", "clear")
          /\ C16_Before(log, "clear", "render")
          /\ C16_Before(log, "render", "display")
          /\ C16_Before(log, "update", "render")
          /\ C16_InOrder(log, "update")
          /\ C16_InOrder(log, "render"))
    /\ []((pc \in {"loop", "returned"} /\ iterations > 0)
             => \A c \in {"handleEvents", "camera", "checkCollisions", "clear", "display"} :
                   Cardinality(C16_Pos(log, c)) = 1)
    /\ [][(pc = "update" /\ pc' = "render")
            => \A i \in 1..Len(gameObjects) :
                  Cardinality(C16_PosOf(log', "update", i))
                     = IF gameObjects[i].active THEN 1 ELSE 0]_vars
    /\ [][(pc = "render" /\ pc' = "loop")
            => \A i \in 1..Len(gameObjects) :
                  Cardinality(C16_PosOf(log', "render", i))
                     = IF gameObjects[i].active THEN 1 ELSE 0]_vars
    /\ [][pc' # pc => <<pc, pc'>> \in {<<"loop", "handleEvents">>, <<"loop", "returned">>,
                                       <<"handleEvents", "update">>,
                                       <<"update", "render">>,
                                       <<"render", "loop">>}]_vars

\* A finished iteration over two active objects.
C16_Witness ==
    /\ pc = "loop"
    /\ iterations > 0
    /\ log = <<Entry("handleEvents", 0), Entry("update", 1), Entry("update", 2),
               Entry("camera", 1), Entry("checkCollisions", 0), Entry("clear", 0),
               Entry("render", 1), Entry("draw", 1), Entry("render", 2),
               Entry("draw", 2), Entry("display", 0)>>
    /\ gameObjects[1].position[2] >= Gravity
    /\ gameObjects[2].position[2] >= Gravity

\* C17: when the update pass of an iteration has ended, the camera centre is
\* the position of the first object of the collection, whether that object
\* is active or not and whichever way it faces.
C17_CameraOnFirst ==
    (pc = "render" /\ gameObjects # <<>>) => camera = gameObjects[1].position

\* C20: the window is closed by the drain of the events, and the iteration
\* goes on from there: with the window closed run still makes its update
\* pass and then its render pass, returns at the next test of the loop
\* condition and begins no further iteration; so when run has returned, the
\* log of the last iteration holds the drain, one update pass with its
\* camera recentre and one render pass.
C20_ClosingIteration ==
    /\ [][(windowOpen /\ ~windowOpen') => (pc = "handleEvents" /\ pc' = "update")]_vars
    /\ [][(~windowOpen /\ pc' # pc)
            => <<pc, pc'>> \in {<<"update", "render">>, <<"render", "loop">>,
                                <<"loop", "returned">>}]_vars
    /\ [][(~windowOpen /\ pc = "update" /\ pc' = "render")
            => /\ Len(log') > Len(log)
               /\ \A i \in 1..Len(gameObjects) :
                     gameObjects[i].active => Entry("update", i) \in
                        {log'[j] : j \in (Len(log) + 1)..Len(log')}
               /\ camera' = getBoundsPosition(gameObjects'[1])]_vars
    /\ [][(~windowOpen /\ pc = "render" /\ pc' = "loop")
            => \A i \in 1..Len(gameObjects) :
                  gameObjects[i].active => Entry("draw", i) \in
                     {log'[j] : j \in (Len(log) + 1)..Len(log')}]_vars
    /\ [][~windowOpen => iterations' = iterations]_vars
    /\ [](pc = "returned"
            => /\ ~windowOpen
               /\ log[1] = Entry("handleEvents", 0)
               /\ \A c \in {"camera", "checkCollisions", "clear", "display"} :
                     Cardinality({j \in 1..Len(log) : log[j].call = c}) = 1)
    /\ ((~windowOpen /\ pc = "update") ~> (pc = "render"))
    /\ ((~windowOpen /\ pc = "render") ~> (pc = "returned"))

\* run has returned after an iteration that closed the window, updated the
\* first object with a deltaTime above 0 and drew it.
C20_Witness ==
    /\ pc = "returned"
    /\ ~windowOpen
    /\ iterations = 1
    /\ gameObjects[1].active
    /\ gameObjects[1].position[2] >= Gravity
    /\ camera[2] = gameObjects[1].position[2]
    /\ \E j \in 1..Len(log) : log[j] = Entry("update", 1)
    /\ \E j \in 1..Len(log) : log[j] = Entry("draw", 1)

====
